---- MODULE Spec2Model ----
(***************************************************************************)
(* Model of knowledge_tools: the three chunkers of src/modules             *)
(* (text_read.py, excel_read.py, word_read.py) and the file processing     *)
(* queue of src/routers/queue.py.                                          *)
(*                                                                         *)
(* A string is a sequence of one-character strings, so that len(), strip() *)
(* and concatenation are computed as Python computes them.                 *)
(***************************************************************************)
EXTENDS Integers, Sequences, FiniteSets, TLC

VARIABLES
    kind,            \* which entry point runs: "text", "excel", "word", "queue"
    lines,           \* text: text_data.content.splitlines()
    sheets,          \* excel: the data rows of each sheet, in excel_file.sheet_names order
    paragraphs,      \* word: paragraph.text of doc.paragraphs
    tables,          \* word: cell.text of doc.tables, table -> row -> cell
    chunk_size,      \* the chunk_size argument
    pc,              \* position in the running function
    i,               \* 0-based index of the loop (line_idx, index, para_idx, table_idx)
    sheet_i,         \* excel: 0-based index of the sheet being folded
    current_chunk,   \* the accumulator string
    current_rows,    \* current_chunk_rows / current_chunk_paragraphs
    line_start,      \* text: line_start
    chunk_id,        \* next chunk_id
    chunks,          \* the list being returned
    folded,          \* history: for each emitted chunk, the texts of the units folded into it
    cur_folded,      \* history: the texts of the units folded into the accumulator
    queue_table,     \* rows of file_processing_queue, in insertion (rowid) order
    now,             \* the clock read by datetime.now()
    response,        \* what the last queue endpoint returned
    inflight,        \* worker -> the file_path its process_file call is handling, or Idle
    file,            \* readers: the file (or DataFrame) a reader function is given
    result,          \* readers: what the reader function returned or raised
    db_connection,   \* database.py: the module global _db_connection
    connects,        \* database.py: how many times lancedb.connect has returned
    db_tables        \* the table names of the database stored at each uri

chunker_vars == <<lines, sheets, paragraphs, tables, chunk_size, pc, i, sheet_i,
                  current_chunk, current_rows, line_start, chunk_id, chunks,
                  folded, cur_folded>>
queue_vars == <<queue_table, now, response, inflight>>
reader_vars == <<file, result>>
db_vars == <<db_connection, connects, db_tables>>
vars == <<kind, chunker_vars, queue_vars, reader_vars, db_vars>>

\* No reader function has been given a file, none has returned.
NoFile == [path |-> "none"]
NoResult == [returned |-> "nothing"]

\* _db_connection = None, src/database.py:11
NoConnection == [uri |-> "none", id |-> 0]

\* str(DB_DIR.absolute()), database.py:7 and 21
DefaultUri == "/w/data/lancedb"

\* the directories a database is opened at
Uris == {DefaultUri, "data/a", "data/b", "data/c"}

\* the tables each database holds on disk before the program starts
StoredTables ==
    [uri \in Uris |->
        IF uri = DefaultUri THEN <<"raw_texts">>
        ELSE IF uri = "data/a" THEN <<"files">>
        ELSE <<>>]

-----------------------------------------------------------------------------
(* Bounds of the model.                                                    *)

MaxLines == 3
MaxChunkSize == 4

\* The lines a modelled text file is made of: empty, blank, with leading or
\* trailing blanks, of length 0..3.
LineTexts ==
    { <<>>, <<" ">>, <<"a">>, <<"a", "a">>, <<"a", " ">>, <<" ", "a">>,
      <<"a", "a", "a">> }

ChunkSizes == 1..MaxChunkSize

\* Sequences over S of length lo..hi.
SeqsOf(S, lo, hi) == UNION { [1..n -> S] : n \in lo..hi }

-----------------------------------------------------------------------------
(* Python string operations.                                               *)

IsSpace(c) == c \in {" ", "\n"}

RECURSIVE rstrip(_)
rstrip(s) ==
    IF s = <<>> THEN s
    ELSE IF IsSpace(s[Len(s)]) THEN rstrip(SubSeq(s, 1, Len(s) - 1)) ELSE s

RECURSIVE lstrip(_)
lstrip(s) ==
    IF s = <<>> THEN s
    ELSE IF IsSpace(s[1]) THEN lstrip(Tail(s)) ELSE s

strip(s) == lstrip(rstrip(s))

\* sep.join(parts)
RECURSIVE join(_, _)
join(sep, parts) ==
    IF parts = <<>> THEN <<>>
    ELSE IF Len(parts) = 1 THEN parts[1]
    ELSE parts[1] \o sep \o join(sep, Tail(parts))

\* [x for x in xs if keep(x)]
RECURSIVE SelectNonBlank(_)
SelectNonBlank(xs) ==
    IF xs = <<>> THEN <<>>
    ELSE IF strip(xs[1]) # <<>> THEN <<xs[1]>> \o SelectNonBlank(Tail(xs))
    ELSE SelectNonBlank(Tail(xs))

-----------------------------------------------------------------------------
(* extract_text_to_chunks, src/modules/text_read.py:239-293                *)

DefaultChunkSize == 1000

\* The scenario file: 3 lines of 400 characters.
Line400 == [n \in 1..400 |-> "a"]
ScenarioLines == <<Line400, Line400, Line400>>

TextChunkData(id, ls, le, text, cc) ==
    [chunk_id |-> id, line_start |-> ls, line_end |-> le, text |-> text,
     char_count |-> cc]

\* line 267 with the separator of line 265 left out
TextFlushCond_NoSeparator(cur, line, size) ==
    Len(cur) + Len(line) > size /\ cur # <<>>

\* lines 265, 267: line_text = line + "\n";
\* len(current_chunk) + len(line_text) > chunk_size and current_chunk
TextFlushCond(cur, line, size) ==
    Len(cur) + Len(line \o <<"\n">>) > size /\ cur # <<>>

\* line 284: if current_chunk.strip()
TextFinalCond(cur) == strip(cur) # <<>>

\* line 276: chunk_id += 1
TextNextId(id) == id + 1

\* No queue endpoint runs while a chunker does, and no reader has returned.
QueueIdle ==
    /\ queue_table = <<>> /\ now = 0 /\ response = [endpoint |-> "none"]
    /\ inflight = <<>>
    /\ file = NoFile /\ result = NoResult
    /\ db_connection = NoConnection /\ connects = 0
    /\ db_tables = StoredTables

TextInit ==
    /\ kind = "text"
    /\ QueueIdle
    /\ \/ /\ lines \in SeqsOf(LineTexts, 0, MaxLines)
          /\ chunk_size \in ChunkSizes
       \/ /\ lines = ScenarioLines
          /\ chunk_size = DefaultChunkSize
    /\ sheets = <<>> /\ paragraphs = <<>> /\ tables = <<>>
    /\ pc = "loop" /\ i = 0 /\ sheet_i = 0
    /\ current_chunk = <<>> /\ current_rows = <<>> /\ line_start = 0
    /\ chunk_id = 0 /\ chunks = <<>>
    /\ folded = <<>> /\ cur_folded = <<>>

\* One iteration of the for loop, lines 264-281.
extract_text_to_chunks_iter ==
    /\ kind = "text" /\ pc = "loop" /\ i < Len(lines)
    /\ LET line == lines[i + 1]
           line_text == line \o <<"\n">>
           flush == TextFlushCond(current_chunk, line, chunk_size)
           kept == IF flush THEN <<>> ELSE current_chunk
       IN  /\ chunks' = IF flush
                        THEN Append(chunks,
                                 TextChunkData(chunk_id, line_start, i - 1,
                                               rstrip(current_chunk),
                                               Len(current_chunk)))
                        ELSE chunks
           /\ folded' = IF flush THEN Append(folded, cur_folded) ELSE folded
           /\ chunk_id' = IF flush THEN TextNextId(chunk_id) ELSE chunk_id
           /\ line_start' = IF flush THEN i ELSE line_start
           /\ current_chunk' = kept \o line_text
           /\ cur_folded' = (IF flush THEN <<>> ELSE cur_folded) \o <<line>>
    /\ i' = i + 1
    /\ UNCHANGED <<db_vars, reader_vars, kind, lines, sheets, paragraphs, tables, chunk_size, pc,
                   sheet_i, current_rows, queue_vars>>

\* The final flush and the return, lines 283-293.
extract_text_to_chunks_final ==
    /\ kind = "text" /\ pc = "loop" /\ i = Len(lines)
    /\ LET flush == TextFinalCond(current_chunk)
       IN  /\ chunks' = IF flush
                        THEN Append(chunks,
                                 TextChunkData(chunk_id, line_start,
                                               Len(lines) - 1,
                                               rstrip(current_chunk),
                                               Len(current_chunk)))
                        ELSE chunks
           /\ folded' = IF flush THEN Append(folded, cur_folded) ELSE folded
    /\ pc' = "done"
    /\ UNCHANGED <<db_vars, reader_vars, kind, lines, sheets, paragraphs, tables, chunk_size, i,
                   sheet_i, current_chunk, current_rows, line_start, chunk_id,
                   cur_folded, queue_vars>>

TextNext == extract_text_to_chunks_iter \/ extract_text_to_chunks_final

SpecText == TextInit /\ [][TextNext]_vars

-----------------------------------------------------------------------------
(* extract_excel_to_chunks, src/modules/excel_read.py:281-345              *)

MaxSheetRows == 2

SheetNames == <<"Sheet1", "Sheet2">>

\* Rows of a sheet after fillna("") and str(val): a blank row, a row with one
\* value, a row with two values, a row with a whitespace cell and a value.
ExcelRows ==
    { << <<>>, <<>> >>,
      << <<"a">>, <<>> >>,
      << <<"a">>, <<"b", "b">> >>,
      << <<" ">>, <<"b", "b">> >> }

\* line 314: " ".join([str(val) for val in row.values if str(val).strip()])
ExcelRowText(row) == join(<<" ">>, SelectNonBlank(row))

\* line 316: len(current_chunk) + len(row_text) > chunk_size and current_chunk
ExcelFlushCond(cur, row_text, size) ==
    Len(cur) + Len(row_text) > size /\ cur # <<>>

\* chunk_id restarted for each sheet
ExcelSheetStartId_Restart(id) == 0

\* line 304: chunk_id is set once, before the loop over the sheets
ExcelSheetStartId(id) == id

\* every chunk is labelled with the first sheet
ExcelChunk_FirstSheet(id, name, rows, cur, fallback) ==
    [chunk_id |-> id, sheet_name |-> SheetNames[1],
     row_start |-> IF rows # <<>> THEN rows[1] ELSE fallback,
     row_end |-> IF rows # <<>> THEN rows[Len(rows)] ELSE fallback,
     text |-> strip(cur), char_count |-> Len(cur)]

\* lines 318-325 and 335-342
ExcelChunk(id, name, rows, cur, fallback) ==
    [chunk_id |-> id, sheet_name |-> name,
     row_start |-> IF rows # <<>> THEN rows[1] ELSE fallback,
     row_end |-> IF rows # <<>> THEN rows[Len(rows)] ELSE fallback,
     text |-> strip(cur), char_count |-> Len(cur)]

ExcelInit ==
    /\ kind = "excel"
    /\ QueueIdle
    /\ sheets \in SeqsOf(SeqsOf(ExcelRows, 0, MaxSheetRows), 1, Len(SheetNames))
    /\ chunk_size \in ChunkSizes
    /\ lines = <<>> /\ paragraphs = <<>> /\ tables = <<>>
    /\ pc = "loop" /\ i = 0 /\ sheet_i = 0
    /\ current_chunk = <<>> /\ current_rows = <<>> /\ line_start = 0
    /\ chunk_id = 0 /\ chunks = <<>>
    /\ folded = <<>> /\ cur_folded = <<>>

\* One iteration of the loop over the rows of a sheet, lines 313-331.
extract_excel_to_chunks_row ==
    /\ kind = "excel" /\ pc = "loop"
    /\ sheet_i < Len(sheets) /\ i < Len(sheets[sheet_i + 1])
    /\ LET row_text == ExcelRowText(sheets[sheet_i + 1][i + 1])
           flush == ExcelFlushCond(current_chunk, row_text, chunk_size)
       IN  /\ chunks' = IF flush
                        THEN Append(chunks,
                                 ExcelChunk(chunk_id, SheetNames[sheet_i + 1],
                                            current_rows, current_chunk, i))
                        ELSE chunks
           /\ folded' = IF flush THEN Append(folded, cur_folded) ELSE folded
           /\ chunk_id' = IF flush THEN chunk_id + 1 ELSE chunk_id
           /\ current_chunk' =
                  (IF flush THEN <<>> ELSE current_chunk) \o row_text \o <<" ">>
           /\ current_rows' =
                  Append(IF flush THEN <<>> ELSE current_rows, i)
           /\ cur_folded' =
                  Append(IF flush THEN <<>> ELSE cur_folded, row_text)
    /\ i' = i + 1
    /\ UNCHANGED <<db_vars, reader_vars, kind, lines, sheets, paragraphs, tables, chunk_size, pc,
                   sheet_i, line_start, queue_vars>>

\* The end of a sheet: the flush of lines 333-343, then either the next
\* sheet with a fresh accumulator (lines 306-311) or the return (line 345).
extract_excel_to_chunks_sheet_end ==
    /\ kind = "excel" /\ pc = "loop"
    /\ sheet_i < Len(sheets) /\ i = Len(sheets[sheet_i + 1])
    /\ LET flush == strip(current_chunk) # <<>>
       IN  /\ chunks' = IF flush
                        THEN Append(chunks,
                                 ExcelChunk(chunk_id, SheetNames[sheet_i + 1],
                                            current_rows, current_chunk, 0))
                        ELSE chunks
           /\ folded' = IF flush THEN Append(folded, cur_folded) ELSE folded
           /\ chunk_id' = ExcelSheetStartId(IF flush THEN chunk_id + 1
                                                     ELSE chunk_id)
    /\ sheet_i' = sheet_i + 1
    /\ i' = 0
    /\ current_chunk' = <<>> /\ current_rows' = <<>> /\ cur_folded' = <<>>
    /\ pc' = IF sheet_i + 1 = Len(sheets) THEN "done" ELSE "loop"
    /\ UNCHANGED <<db_vars, reader_vars, kind, lines, sheets, paragraphs, tables, chunk_size,
                   line_start, queue_vars>>

ExcelNext == extract_excel_to_chunks_row \/ extract_excel_to_chunks_sheet_end

SpecExcel == ExcelInit /\ [][ExcelNext]_vars

-----------------------------------------------------------------------------
(* extract_word_to_chunks, src/modules/word_read.py:243-331                *)

MaxParagraphs == 2
MaxTables == 2

\* paragraph.text of a paragraph: empty, one character, padded.
ParagraphTexts == { <<>>, <<"a">>, <<" ", "a", "a">> }

\* Tables as rows of cell texts: one cell; a row of two cells and an empty
\* row; an empty table; two rows of one value each.
WordTables ==
    { << << <<"a">> >> >>,
      << << <<"a">>, <<"b", "b">> >>, << <<>>, <<" ">> >> >>,
      << << <<>>, <<>> >> >>,
      << << <<"a">>, <<>> >>, << <<>>, <<"b", "b">> >> >> }

Digits == <<"0", "1", "2", "3", "4", "5", "6", "7", "8", "9">>

\* line 318: f"=== Table {table_idx} ===\n"
TableHeader(table_idx) ==
    <<"=", "=", "=", " ", "T", "a", "b", "l", "e", " ">>
        \o <<Digits[table_idx + 1]>> \o <<" ", "=", "=", "=", "\n">>

\* [cell.text.strip() for cell in row.cells]
StripAll(cells) == [k \in 1..Len(cells) |-> strip(cells[k])]

\* lines 298-299: " | ".join([cell for cell in cells if cell])
WordRowText(row) == join(<<" ", "|", " ">>, SelectNonBlank(StripAll(row)))

\* lines 296-301: table_text, every non-empty row followed by "\n"
RECURSIVE WordTableText(_)
WordTableText(table) ==
    IF table = <<>> THEN <<>>
    ELSE (IF WordRowText(table[1]) # <<>>
          THEN WordRowText(table[1]) \o <<"\n">> ELSE <<>>)
             \o WordTableText(Tail(table))

\* lines 277 and 304: len(current_chunk) + len(text) > chunk_size and current_chunk
WordFlushCond(cur, text, size) ==
    Len(cur) + Len(text) > size /\ cur # <<>>

\* lines 279-286, 306-313 and 322-329
WordChunk(id, paras, cur, fallback) ==
    [chunk_id |-> id, type |-> "paragraph",
     paragraph_start |-> IF paras # <<>> THEN paras[1] ELSE fallback,
     paragraph_end |-> IF paras # <<>> THEN paras[Len(paras)] ELSE fallback,
     text |-> strip(cur), char_count |-> Len(cur)]

WordInit ==
    /\ kind = "word"
    /\ QueueIdle
    /\ paragraphs \in SeqsOf(ParagraphTexts, 0, MaxParagraphs)
    /\ tables \in SeqsOf(WordTables, 0, MaxTables)
    /\ chunk_size \in ChunkSizes
    /\ lines = <<>> /\ sheets = <<>>
    /\ pc = IF paragraphs = <<>> THEN "tables" ELSE "loop"
    /\ i = 0 /\ sheet_i = 0
    /\ current_chunk = <<>> /\ current_rows = <<>> /\ line_start = 0
    /\ chunk_id = 0 /\ chunks = <<>>
    /\ folded = <<>> /\ cur_folded = <<>>

\* One iteration of the loop over doc.paragraphs, lines 272-292.
extract_word_to_chunks_paragraph ==
    /\ kind = "word" /\ pc = "loop" /\ i < Len(paragraphs)
    /\ LET text == strip(paragraphs[i + 1])
           flush == WordFlushCond(current_chunk, text, chunk_size)
       IN  IF text = <<>>
           THEN UNCHANGED <<chunks, folded, chunk_id, current_chunk,
                            current_rows, cur_folded>>
           ELSE /\ chunks' = IF flush
                             THEN Append(chunks,
                                      WordChunk(chunk_id, current_rows,
                                                current_chunk, i))
                             ELSE chunks
                /\ folded' = IF flush THEN Append(folded, cur_folded)
                                      ELSE folded
                /\ chunk_id' = IF flush THEN chunk_id + 1 ELSE chunk_id
                /\ current_chunk' =
                       (IF flush THEN <<>> ELSE current_chunk)
                           \o text \o <<"\n">>
                /\ current_rows' =
                       Append(IF flush THEN <<>> ELSE current_rows, i)
                /\ cur_folded' =
                       Append(IF flush THEN <<>> ELSE cur_folded, text)
    /\ i' = IF i + 1 = Len(paragraphs) THEN 0 ELSE i + 1
    /\ pc' = IF i + 1 = Len(paragraphs) THEN "tables" ELSE "loop"
    /\ UNCHANGED <<db_vars, reader_vars, kind, lines, sheets, paragraphs, tables, chunk_size,
                   sheet_i, line_start, queue_vars>>

\* One iteration of the loop over doc.tables, lines 295-318.
extract_word_to_chunks_table ==
    /\ kind = "word" /\ pc = "tables" /\ i < Len(tables)
    /\ LET table_text == WordTableText(tables[i + 1])
           flush == WordFlushCond(current_chunk, table_text, chunk_size)
       IN  IF table_text = <<>>
           THEN UNCHANGED <<chunks, folded, chunk_id, current_chunk,
                            current_rows, cur_folded>>
           ELSE /\ chunks' = IF flush
                             THEN Append(chunks,
                                      WordChunk(chunk_id, current_rows,
                                                current_chunk, 0))
                             ELSE chunks
                /\ folded' = IF flush THEN Append(folded, cur_folded)
                                      ELSE folded
                /\ chunk_id' = IF flush THEN chunk_id + 1 ELSE chunk_id
                /\ current_chunk' =
                       (IF flush THEN <<>> ELSE current_chunk)
                           \o TableHeader(i) \o table_text
                /\ current_rows' = IF flush THEN <<>> ELSE current_rows
                /\ cur_folded' =
                       Append(IF flush THEN <<>> ELSE cur_folded, table_text)
    /\ i' = i + 1
    /\ UNCHANGED <<db_vars, reader_vars, kind, lines, sheets, paragraphs, tables, chunk_size, pc,
                   sheet_i, line_start, queue_vars>>

\* The final flush and the return, lines 320-331.
extract_word_to_chunks_final ==
    /\ kind = "word" /\ pc = "tables" /\ i = Len(tables)
    /\ LET flush == strip(current_chunk) # <<>>
       IN  /\ chunks' = IF flush
                        THEN Append(chunks,
                                 WordChunk(chunk_id, current_rows,
                                           current_chunk, 0))
                        ELSE chunks
           /\ folded' = IF flush THEN Append(folded, cur_folded) ELSE folded
    /\ pc' = "done"
    /\ UNCHANGED <<db_vars, reader_vars, kind, lines, sheets, paragraphs, tables, chunk_size, i,
                   sheet_i, current_chunk, current_rows, line_start, chunk_id,
                   cur_folded, queue_vars>>

WordNext ==
    \/ extract_word_to_chunks_paragraph
    \/ extract_word_to_chunks_table
    \/ extract_word_to_chunks_final

SpecWord == WordInit /\ [][WordNext]_vars

-----------------------------------------------------------------------------
(* The three chunkers side by side.                                        *)

ChunkInit == TextInit \/ ExcelInit \/ WordInit

ChunkNext == TextNext \/ ExcelNext \/ WordNext

SpecChunk == ChunkInit /\ [][ChunkNext]_vars

-----------------------------------------------------------------------------
(* The queue endpoints, src/routers/queue.py.                              *)

MaxQueueRows == 3
MaxClock == 2

NULL == -1

Paths == {"report.txt", "notes.txt"}
Priorities == {0, 1, 5}
Workers == {"w1", "w2"}
Idle == "idle"
Statuses == {"PENDING", "PROCESSING", "COMPLETED", "FAILED"}

\* A row left in the table by an earlier run: the row an enqueue of that run
\* inserted (lines 77-80), which nothing has changed since.
StoredRow(path, prio) ==
    [id |-> 1, file_path |-> path, status |-> "PENDING", priority |-> prio,
     retry_count |-> 0,
     error_message |-> NULL, file_hash |-> NULL, metadata |-> NULL,
     created_at |-> 0, updated_at |-> 0,
     started_at |-> NULL, completed_at |-> NULL]

\* file_processing_queue is a durable table: ensure_table_exists creates it
\* only when it is missing and otherwise leaves its rows as they are.
ensure_table_exists ==
    {<<>>} \cup { <<StoredRow(p, pr)>> : p \in Paths, pr \in {1, 5} }

\* The uniqueness rule of the table (sql/file_processing_queue.sql): an insert
\* is refused when a row of the same file_path is PENDING or PROCESSING.
UniqueViolation(t, path) ==
    \E k \in 1..Len(t) :
        t[k].file_path = path /\ t[k].status \in {"PENDING", "PROCESSING"}

\* cursor.lastrowid of an insert: rows are never deleted, so the next rowid
\* is one more than the largest.
lastrowid(t) == Len(t) + 1

\* the row inserted with a status outside the state machine
NewRow_Queued(t, path, prio, ts) ==
    [id |-> lastrowid(t), file_path |-> path, status |-> "QUEUED",
     priority |-> prio, retry_count |-> 0, error_message |-> NULL,
     file_hash |-> NULL, metadata |-> NULL, created_at |-> ts,
     updated_at |-> ts, started_at |-> NULL, completed_at |-> NULL]

\* request.priority dropped: the row always gets the default priority
NewRow_DefaultPriority(t, path, prio, ts) ==
    [id |-> lastrowid(t), file_path |-> path, status |-> "PENDING",
     priority |-> 0, retry_count |-> 0, error_message |-> NULL,
     file_hash |-> NULL, metadata |-> NULL, created_at |-> ts,
     updated_at |-> ts, started_at |-> NULL, completed_at |-> NULL]

\* the inserted row is stamped as started
NewRow_Started(t, path, prio, ts) ==
    [id |-> lastrowid(t), file_path |-> path, status |-> "PENDING",
     priority |-> prio, retry_count |-> 0, error_message |-> NULL,
     file_hash |-> NULL, metadata |-> NULL, created_at |-> ts,
     updated_at |-> ts, started_at |-> ts, completed_at |-> NULL]

\* lines 77-80: the values of the inserted row
NewRow(t, path, prio, ts) ==
    [id |-> lastrowid(t), file_path |-> path, status |-> "PENDING",
     priority |-> prio, retry_count |-> 0, error_message |-> NULL,
     file_hash |-> NULL, metadata |-> NULL, created_at |-> ts,
     updated_at |-> ts, started_at |-> NULL, completed_at |-> NULL]

\* INSERT OR REPLACE instead of INSERT: the rows in conflict are overwritten
execute_insert_OrReplace(t, row) ==
    [error |-> "none",
     table |-> IF UniqueViolation(t, row.file_path)
               THEN [k \in 1..Len(t) |->
                        IF t[k].file_path = row.file_path
                           /\ t[k].status \in {"PENDING", "PROCESSING"}
                        THEN [row EXCEPT !.id = t[k].id]
                        ELSE t[k]]
               ELSE Append(t, row)]

\* lines 72-82: cursor.execute(INSERT ...) and conn.commit()
execute_insert(t, row) ==
    IF UniqueViolation(t, row.file_path)
    THEN [error |-> "IntegrityError", table |-> t]
    ELSE [error |-> "none", table |-> Append(t, row)]

\* ORDER BY priority ASC, created_at ASC
KeyLess_PriorityAsc(a, b) ==
    \/ a.priority < b.priority
    \/ a.priority = b.priority /\ a.created_at < b.created_at

\* line 38: ORDER BY priority DESC, created_at ASC
KeyLess(a, b) ==
    \/ a.priority > b.priority
    \/ a.priority = b.priority /\ a.created_at < b.created_at

\* lines 34-40: the orders in which the SELECT can return the rows of t. The
\* query names no key after created_at, so rows equal on both keys come in
\* whatever order SQLite's plan produces them.
OrderBy(t) ==
    LET n == Len(t)
        sorted(q) == \A a, b \in 1..n : a < b => ~KeyLess(t[q[b]], t[q[a]])
    IN  { [k \in 1..n |-> t[q[k]]] :
            q \in { p \in [1..n -> 1..n] :
                      /\ \A a, b \in 1..n : a # b => p[a] # p[b]
                      /\ sorted(p) } }

\* lines 44-54: the columns of a listed row
ListedRow(r) ==
    [id |-> r.id, file_path |-> r.file_path, status |-> r.status,
     priority |-> r.priority, retry_count |-> r.retry_count,
     created_at |-> r.created_at, updated_at |-> r.updated_at,
     started_at |-> r.started_at, completed_at |-> r.completed_at]

QueueInit ==
    /\ kind = "queue"
    /\ queue_table \in ensure_table_exists
    /\ now = 0
    /\ response = [endpoint |-> "none"]
    /\ inflight = [w \in Workers |-> Idle]
    /\ lines = <<>> /\ sheets = <<>> /\ paragraphs = <<>> /\ tables = <<>>
    /\ chunk_size = 0 /\ pc = "serving" /\ i = 0 /\ sheet_i = 0
    /\ current_chunk = <<>> /\ current_rows = <<>> /\ line_start = 0
    /\ chunk_id = 0 /\ chunks = <<>> /\ folded = <<>> /\ cur_folded = <<>>
    /\ file = NoFile /\ result = NoResult
    /\ db_connection = NoConnection /\ connects = 0
    /\ db_tables = StoredTables

\* The body of enqueue, lines 64-97, run for the endpoint named.
enqueue_request(endpoint, path, prio) ==
    /\ kind = "queue"
    /\ Len(queue_table) < MaxQueueRows
    /\ \E ts \in {now, now + 1} :
        /\ ts <= MaxClock
        /\ now' = ts
        /\ LET done == execute_insert(queue_table,
                                      NewRow(queue_table, path, prio, ts))
           IN  /\ queue_table' = done.table
               /\ response' =
                    IF done.error = "IntegrityError"
                    THEN [endpoint |-> endpoint, status_code |-> 400,
                          file_path |-> path]
                    ELSE [endpoint |-> endpoint, status_code |-> 200,
                          queue_id |-> lastrowid(queue_table),
                          file_path |-> path, status |-> "PENDING",
                          priority |-> prio]
    /\ UNCHANGED <<db_vars, reader_vars, kind, chunker_vars, inflight>>

\* POST /queue/enqueue, lines 63-97
enqueue(path, prio) == enqueue_request("enqueue", path, prio)

\* the request's priority is passed on as it came
dequeue_KeepsPriority(path, prio) == enqueue_request("dequeue", path, prio)

\* POST /queue/dequeue, lines 100-105: request.priority = 0, then enqueue
dequeue(path, prio) == enqueue_request("dequeue", path, 0)

\* GET /queue/queue_list, lines 27-60
get_queue_list ==
    /\ kind = "queue"
    /\ \E rows \in OrderBy(queue_table) :
           response' = [endpoint |-> "queue_list", status_code |-> 200,
                        queue_list |-> [k \in 1..Len(rows) |-> ListedRow(rows[k])],
                        count |-> Len(rows)]
    /\ UNCHANGED <<db_vars, reader_vars, kind, chunker_vars, queue_table, now, inflight>>

\* process_file, lines 21-24: a worker enters the function with a file_path;
\* the body prints the path and touches no row.
process_file_call(w, path) ==
    /\ kind = "queue"
    /\ inflight[w] = Idle
    /\ inflight' = [inflight EXCEPT ![w] = path]
    /\ UNCHANGED <<db_vars, reader_vars, kind, chunker_vars, queue_table, now, response>>

process_file_return(w) ==
    /\ kind = "queue"
    /\ inflight[w] # Idle
    /\ inflight' = [inflight EXCEPT ![w] = Idle]
    /\ UNCHANGED <<db_vars, reader_vars, kind, chunker_vars, queue_table, now, response>>

QueueNext ==
    \/ \E p \in Paths, pr \in Priorities : enqueue(p, pr)
    \/ \E p \in Paths, pr \in Priorities : dequeue(p, pr)
    \/ get_queue_list
    \/ \E w \in Workers, p \in Paths : process_file_call(w, p)
    \/ \E w \in Workers : process_file_return(w)

SpecQueue == QueueInit /\ [][QueueNext]_vars

\* The service started on a database without the table: ensure_table_exists
\* has just created it, empty.
QueueFreshInit ==
    /\ kind = "queue"
    /\ queue_table = <<>>
    /\ now = 0
    /\ response = [endpoint |-> "none"]
    /\ inflight = [w \in Workers |-> Idle]
    /\ lines = <<>> /\ sheets = <<>> /\ paragraphs = <<>> /\ tables = <<>>
    /\ chunk_size = 0 /\ pc = "serving" /\ i = 0 /\ sheet_i = 0
    /\ current_chunk = <<>> /\ current_rows = <<>> /\ line_start = 0
    /\ chunk_id = 0 /\ chunks = <<>> /\ folded = <<>> /\ cur_folded = <<>>
    /\ file = NoFile /\ result = NoResult
    /\ db_connection = NoConnection /\ connects = 0
    /\ db_tables = StoredTables

SpecQueueFresh == QueueFreshInit /\ [][QueueNext]_vars

-----------------------------------------------------------------------------
(* Claims on extract_text_to_chunks.                                       *)

TextDone == kind = "text" /\ pc = "done"

\* len of lines[a..b] (1-based) once each is followed by its "\n"
RECURSIVE RunLen(_, _, _)
RunLen(ls, a, b) ==
    IF a > b THEN 0 ELSE Len(ls[a]) + 1 + RunLen(ls, a + 1, b)

\* C1: for a non-empty sequence of lines the returned chunks, in chunk_id
\* order, start at line 0, end at the last line index and are contiguous and
\* non-overlapping, so every line index belongs to exactly one chunk.
C1_ChunksPartitionLines ==
    (TextDone /\ lines # <<>>) =>
        /\ chunks # <<>>
        /\ chunks[1].line_start = 0
        /\ chunks[Len(chunks)].line_end = Len(lines) - 1
        /\ \A k \in 1..Len(chunks) : chunks[k].line_start <= chunks[k].line_end
        /\ \A k \in 2..Len(chunks) :
               chunks[k].line_start = chunks[k - 1].line_end + 1

\* C7: a chunk is closed before line i exactly when the accumulator is
\* non-empty and its length + len(line i) + 1 exceeds chunk_size, and line i is
\* appended in either case; hence every chunk closed before the end of the file
\* is the longest run of lines that fits, and 3 lines of 400 characters with
\* chunk_size 1000 give two chunks, lines 0..1 and line 2.
C7_StepRule ==
    (kind = "text" /\ pc = "loop" /\ i < Len(lines) /\ i' = i + 1) =>
        LET closes == current_chunk # <<>>
                      /\ Len(current_chunk) + Len(lines[i + 1]) + 1 > chunk_size
        IN  /\ closes <=> Len(chunks') = Len(chunks) + 1
            /\ ~closes => chunks' = chunks
            /\ current_chunk' =
                   (IF closes THEN <<>> ELSE current_chunk)
                       \o lines[i + 1] \o <<"\n">>

C7_LongestRun ==
    TextDone =>
        \A k \in 1..Len(chunks) :
            LET a == chunks[k].line_start + 1
                b == chunks[k].line_end + 1
            IN  b < Len(lines) =>
                    /\ a <= b
                    /\ (a = b \/ RunLen(lines, a, b) <= chunk_size)
                    /\ RunLen(lines, a, b + 1) > chunk_size

C7_Scenario ==
    (TextDone /\ lines = ScenarioLines /\ chunk_size = DefaultChunkSize) =>
        /\ Len(chunks) = 2
        /\ chunks[1].line_start = 0 /\ chunks[1].line_end = 1
        /\ chunks[2].line_start = 2 /\ chunks[2].line_end = 2

C7_FlushRule ==
    [][C7_StepRule]_vars /\ [](C7_LongestRun /\ C7_Scenario)

C7_Witness ==
    /\ TextDone /\ lines = ScenarioLines /\ chunk_size = DefaultChunkSize
    /\ Len(chunks) = 2 /\ chunks[1].char_count = 802

\* C8: a line longer than chunk_size is emitted whole as the text of a chunk
\* of its own, with line_start = line_end = the line's index.
C8_OversizedLineOwnChunk ==
    TextDone =>
        \A j \in 1..Len(lines) :
            Len(lines[j]) > chunk_size =>
                \E k \in 1..Len(chunks) :
                    /\ chunks[k].line_start = j - 1
                    /\ chunks[k].line_end = j - 1
                    /\ chunks[k].text = lines[j]

-----------------------------------------------------------------------------
(* Claims on the queue.                                                    *)

ActiveRowExists(t, path) ==
    \E k \in 1..Len(t) :
        t[k].file_path = path /\ t[k].status \in {"PENDING", "PROCESSING"}

RowIds(t) == { t[k].id : k \in 1..Len(t) }

\* C2: enqueue of a file_path that has a PENDING or PROCESSING row is
\* rejected with the duplicate error and adds no row; enqueue of a file_path
\* whose rows are all COMPLETED or FAILED succeeds and creates a new row with a
\* new id.
C2_EnqueueStep ==
    \A p \in Paths, pr \in Priorities :
        enqueue(p, pr) =>
            IF ActiveRowExists(queue_table, p)
            THEN /\ response'.status_code = 400
                 /\ queue_table' = queue_table
            ELSE /\ response'.status_code = 200
                 /\ Len(queue_table') = Len(queue_table) + 1
                 /\ SubSeq(queue_table', 1, Len(queue_table)) = queue_table
                 /\ LET new == queue_table'[Len(queue_table')]
                    IN  /\ new.file_path = p
                        /\ new.id \notin RowIds(queue_table)
                        /\ new.id = response'.queue_id

Busy(w) == inflight[w] # Idle

\* The rows a worker holding path p may be working on.
HeldRows(p) ==
    { k \in 1..Len(queue_table) : queue_table[k].file_path = p }

\* C3: when the workers take items concurrently from a queue that holds at
\* least as many items, they hold pairwise distinct items and each held item
\* has been moved from PENDING to PROCESSING; no item is held by two workers.
C3_DistinctClaims ==
    (/\ kind = "queue"
     /\ \A w \in Workers : Busy(w) /\ HeldRows(inflight[w]) # {}
     /\ Len(queue_table) >= Cardinality(Workers)) =>
        /\ \A w1, w2 \in Workers : w1 # w2 => inflight[w1] # inflight[w2]
        /\ \A w \in Workers :
               \E k \in HeldRows(inflight[w]) :
                   queue_table[k].status = "PROCESSING"

\* C4: the item a worker takes is the first under (priority descending,
\* created_at ascending, insertion order) among the PENDING items, and taking
\* it moves it to PROCESSING and stamps started_at; with report.txt at
\* priority 5 and notes.txt at priority 1 the first item taken is report.txt.
C4_TakesHeadAndStamps ==
    (/\ kind = "queue"
     /\ \E w \in Workers : Busy(w)
     /\ \A w1, w2 \in Workers : (Busy(w1) /\ Busy(w2)) => w1 = w2
     /\ Len(queue_table) = 2
     /\ \A k \in 1..2 : queue_table[k].created_at = k - 1
     /\ queue_table[1].status \in {"PENDING", "PROCESSING"}
     /\ queue_table[2].status = "PENDING"
     /\ queue_table[1].file_path = "report.txt" /\ queue_table[1].priority = 5
     /\ queue_table[2].file_path = "notes.txt" /\ queue_table[2].priority = 1) =>
        \A w \in Workers :
            Busy(w) =>
                /\ inflight[w] = "report.txt"
                /\ queue_table[1].status = "PROCESSING"
                /\ queue_table[1].started_at # NULL

AllowedEdge(old, new) ==
    \/ old.status = "PENDING" /\ new.status = "PROCESSING"
    \/ old.status = "PROCESSING" /\ new.status \in {"COMPLETED", "FAILED"}
    \/ /\ old.status = "FAILED" /\ new.status = "PENDING"
       /\ new.retry_count = old.retry_count + 1

\* C5: every row's status is one of PENDING, PROCESSING, COMPLETED, FAILED;
\* a step changes a row's status only along PENDING -> PROCESSING ->
\* COMPLETED or FAILED, or FAILED -> PENDING with retry_count incremented; and
\* every change of the table is such a transition of a row or the insertion of
\* one new PENDING row (no row is deleted, none changes its id).
C5_StatusValid ==
    \A k \in 1..Len(queue_table) : queue_table[k].status \in Statuses

C5_TableStep ==
    /\ Len(queue_table') \in {Len(queue_table), Len(queue_table) + 1}
    /\ \A k \in 1..Len(queue_table) :
           /\ queue_table'[k].id = queue_table[k].id
           /\ \/ queue_table'[k] = queue_table[k]
              \/ AllowedEdge(queue_table[k], queue_table'[k])
    /\ Len(queue_table') = Len(queue_table) + 1 =>
           /\ queue_table'[Len(queue_table')].status = "PENDING"
           /\ \A k \in 1..Len(queue_table) : queue_table'[k] = queue_table[k]

C5_StateMachine == [](C5_StatusValid) /\ [][C5_TableStep]_vars

\* A table that an enqueue and a dequeue have grown by one PENDING row each.
C5_Witness ==
    /\ kind = "queue"
    /\ Len(queue_table) = 2
    /\ queue_table[1].status = "PENDING" /\ queue_table[1].priority = 5
    /\ queue_table[2].status = "PENDING" /\ queue_table[2].priority = 0
    /\ queue_table[2].id = 2
    /\ response.endpoint = "dequeue"
    /\ response.status_code = 200

\* every row of the table is listed once, with its columns
C10_EveryRowListed ==
    LET ql == response.queue_list
    IN  /\ response.count = Len(queue_table)
        /\ Len(ql) = Len(queue_table)
        /\ \A k \in 1..Len(queue_table) :
               \E m \in 1..Len(ql) : ql[m] = ListedRow(queue_table[k])

\* get_queue_list returns every row of the table, ordered by priority
\* descending, then created_at ascending, rows equal on both keys in insertion
\* order.
C10_Listed ==
    (kind = "queue" /\ response.endpoint = "queue_list") =>
        /\ C10_EveryRowListed
        /\ \A a, b \in 1..Len(response.queue_list) :
               a < b =>
                   LET ra == response.queue_list[a]
                       rb == response.queue_list[b]
                   IN  \/ ra.priority > rb.priority
                       \/ /\ ra.priority = rb.priority
                          /\ ra.created_at < rb.created_at
                       \/ /\ ra.priority = rb.priority
                          /\ ra.created_at = rb.created_at
                          /\ ra.id < rb.id

\* the same without an order among rows equal on both keys
C10_ListedByKeys ==
    (kind = "queue" /\ response.endpoint = "queue_list") =>
        /\ C10_EveryRowListed
        /\ \A a, b \in 1..Len(response.queue_list) :
               a < b =>
                   LET ra == response.queue_list[a]
                       rb == response.queue_list[b]
                   IN  \/ ra.priority > rb.priority
                       \/ /\ ra.priority = rb.priority
                          /\ ra.created_at <= rb.created_at

C10_ListStep ==
    get_queue_list => (queue_table' = queue_table /\ now' = now)

\* C10 as stated: get_queue_list returns every row of the table, ordered by
\* priority descending, then created_at ascending, rows equal on both keys in
\* insertion order, and it changes no row.
C10_ListOrderedReadOnly == [](C10_Listed) /\ [][C10_ListStep]_vars

\* C10, amended: get_queue_list returns every row of the table, ordered by
\* priority descending, then created_at ascending, and it changes no row; the
\* order among rows equal on both keys is not fixed.
C10_ListOrderedByKeysReadOnly == [](C10_ListedByKeys) /\ [][C10_ListStep]_vars

\* Two rows equal on both keys have been listed against their insertion
\* order.
C10_Witness ==
    /\ kind = "queue"
    /\ response.endpoint = "queue_list"
    /\ response.count = 2
    /\ response.queue_list[1].id = 2
    /\ response.queue_list[2].id = 1
    /\ response.queue_list[1].priority = response.queue_list[2].priority
    /\ response.queue_list[1].created_at = response.queue_list[2].created_at

-----------------------------------------------------------------------------
(* Claims on the three chunkers.                                           *)

ChunkerDone == kind \in {"text", "excel", "word"} /\ pc = "done"

\* chunk k stays within chunk_size plus the length of the last unit folded
\* into it, unless it folds exactly one unit
WithinBudget(k) ==
    Len(folded[k]) # 1 =>
        chunks[k].char_count <=
            chunk_size + Len(folded[k][Len(folded[k])])

\* C6: for each of the text, spreadsheet and word chunkers, every returned
\* chunk other than one that folds exactly one unit has a char_count that
\* exceeds chunk_size by no more than the length of the last unit folded into
\* that chunk.
C6_ChunkWithinBudget ==
    ChunkerDone => \A k \in 1..Len(chunks) : WithinBudget(k)

\* The same statement for one chunker at a time.
C6_TextWithinBudget ==
    (ChunkerDone /\ kind = "text") => \A k \in 1..Len(chunks) : WithinBudget(k)
C6_ExcelWithinBudget ==
    (ChunkerDone /\ kind = "excel") => \A k \in 1..Len(chunks) : WithinBudget(k)
C6_WordWithinBudget ==
    (ChunkerDone /\ kind = "word") => \A k \in 1..Len(chunks) : WithinBudget(k)

\* C9: for each of the three chunkers the chunk_id values of the returned
\* list are 0, 1, ..., n-1 in list order; for the spreadsheet chunker the
\* numbering continues across the sheets of one file.
C9_ChunkIdsInOrder ==
    ChunkerDone => \A k \in 1..Len(chunks) : chunks[k].chunk_id = k - 1

\* A spreadsheet whose second sheet yields a chunk after two chunks of the
\* first sheet.
C9_Witness ==
    /\ ChunkerDone /\ kind = "excel"
    /\ Len(chunks) >= 3
    /\ chunks[2].sheet_name = SheetNames[1]
    /\ chunks[3].sheet_name = SheetNames[2]
    /\ chunks[3].chunk_id = 2

-----------------------------------------------------------------------------
(* Further claims on the queue.                                            *)

\* C11: a successful enqueue(file_path, priority) adds exactly one row with
\* status PENDING, the requested priority, retry_count 0, created_at equal to
\* updated_at, and null error_message, file_hash, metadata, started_at and
\* completed_at, and leaves every earlier row unchanged.
C11_EnqueueStep ==
    \A p \in Paths, pr \in Priorities :
        (enqueue(p, pr) /\ response'.status_code = 200) =>
            /\ Len(queue_table') = Len(queue_table) + 1
            /\ SubSeq(queue_table', 1, Len(queue_table)) = queue_table
            /\ LET new == queue_table'[Len(queue_table')]
               IN  /\ new.file_path = p
                   /\ new.status = "PENDING"
                   /\ new.priority = pr
                   /\ new.retry_count = 0
                   /\ new.created_at = new.updated_at
                   /\ new.created_at = now'
                   /\ new.error_message = NULL
                   /\ new.file_hash = NULL
                   /\ new.metadata = NULL
                   /\ new.started_at = NULL
                   /\ new.completed_at = NULL

C11_EnqueueAddsOneRow == [][C11_EnqueueStep]_vars

\* An enqueue with priority 5 has added a row behind an earlier one, after
\* the clock moved.
C11_Witness ==
    /\ kind = "queue"
    /\ response.endpoint = "enqueue" /\ response.status_code = 200
    /\ response.priority = 5
    /\ Len(queue_table) = 2
    /\ response.queue_id = 2
    /\ queue_table[2].priority = 5
    /\ queue_table[2].created_at = 1
    /\ queue_table[1].created_at = 0

\* C12: an item that a worker has taken ends that processing run with one
\* finalizing transition, to COMPLETED on success or to FAILED on failure; it
\* is never left unfinished when the run ends.
C12_ReturnStep ==
    \A w \in Workers :
        (Busy(w) /\ inflight'[w] = Idle) =>
            \A k \in HeldRows(inflight[w]) :
                queue_table[k].status \in {"PENDING", "PROCESSING"} =>
                    queue_table'[k].status \in {"COMPLETED", "FAILED"}

C12_RunEndsFinalized == [][C12_ReturnStep]_vars

-----------------------------------------------------------------------------
(* _extract_dataframe_text, src/modules/excel_read.py:104-161              *)

MaxDfRows == 3

\* No chunker and no queue endpoint runs while a reader function does.
ReaderIdle ==
    /\ lines = <<>> /\ sheets = <<>> /\ paragraphs = <<>> /\ tables = <<>>
    /\ chunk_size = 0 /\ pc = "reading" /\ i = 0 /\ sheet_i = 0
    /\ current_chunk = <<>> /\ current_rows = <<>> /\ line_start = 0
    /\ chunk_id = 0 /\ chunks = <<>> /\ folded = <<>> /\ cur_folded = <<>>
    /\ queue_table = <<>> /\ now = 0 /\ response = [endpoint |-> "none"]
    /\ inflight = <<>>
    /\ db_connection = NoConnection /\ connects = 0
    /\ db_tables = StoredTables

\* df.columns
DfColumns == <<"A", "B">>

\* Rows of a DataFrame after fillna(""), one cell per column: two values, all
\* blank, one value, a whitespace cell and a padded value, blank with a
\* whitespace cell, a value in the second column only.
DfRows ==
    { << <<"a">>, <<"b">> >>,
      << <<>>, <<>> >>,
      << <<"c">>, <<>> >>,
      << <<" ">>, <<"a", " ">> >>,
      << <<>>, <<" ">> >>,
      << <<>>, <<"c">> >> }

\* len(s.split()): the number of maximal runs of non-whitespace
split_count(s) ==
    Cardinality({ k \in 1..Len(s) :
                    ~IsSpace(s[k]) /\ (k = 1 \/ IsSpace(s[k - 1])) })

\* lines 127-131: row_data, the non-blank cells of the row by column
DfRowData(row) ==
    { <<DfColumns[c], row[c]>> : c \in { d \in 1..Len(row) : strip(row[d]) # <<>> } }

\* every row is emitted, blank or not
DfRowKept_Always(row_texts) == TRUE

\* line 133: if row_texts
DfRowKept(row_texts) == row_texts # <<>>

\* lines 123-139: rows_data, for the rows from position index on
RECURSIVE DfRowsData(_, _)
DfRowsData(rows, index) ==
    IF rows = <<>> THEN <<>>
    ELSE LET row_texts == SelectNonBlank(rows[1])
         IN  (IF DfRowKept(row_texts)
              THEN << [row_index |-> index, data |-> DfRowData(rows[1]),
                       text |-> join(<<" ">>, row_texts)] >>
              ELSE <<>>)
                 \o DfRowsData(Tail(rows), index + 1)

\* line 134: all_texts, the non-blank cells of every row in order
RECURSIVE DfAllTexts(_)
DfAllTexts(rows) ==
    IF rows = <<>> THEN <<>>
    ELSE SelectNonBlank(rows[1]) \o DfAllTexts(Tail(rows))

\* lines 141-161: the ExcelSheetData returned
ExcelSheetData(df) ==
    LET rows_data == DfRowsData(df.rows, 0)
        full_text == join(<<" ">>, DfAllTexts(df.rows))
    IN  [returned |-> "ExcelSheetData",
         row_count |-> Len(rows_data),
         column_count |-> Len(df.columns),
         columns |-> df.columns,
         rows |-> rows_data,
         full_text |-> full_text,
         word_count |-> IF full_text # <<>> THEN split_count(full_text) ELSE 0]

DataframeInit ==
    /\ kind = "dataframe"
    /\ ReaderIdle
    /\ file \in { [path |-> "DataFrame", columns |-> DfColumns, rows |-> rs] :
                    rs \in SeqsOf(DfRows, 0, MaxDfRows) }
    /\ result = NoResult

extract_dataframe_text ==
    /\ kind = "dataframe" /\ result = NoResult
    /\ result' = ExcelSheetData(file)
    /\ UNCHANGED <<kind, chunker_vars, queue_vars, file, db_vars>>

DataframeNext == extract_dataframe_text

SpecDataframe == DataframeInit /\ [][DataframeNext]_vars

\* C14: _extract_dataframe_text emits exactly one row record for each data row
\* that has at least one non-blank cell, in row order, with text equal to that
\* row's non-blank cell values joined by one space, and nothing for a row
\* whose cells are all blank; rows [a, b], [blank, blank], [c] give exactly
\* the texts 'a b' and 'c'; row_count is the number of records emitted.
DfNonBlankRows(rows) ==
    { k \in 1..Len(rows) : \E c \in 1..Len(rows[k]) : strip(rows[k][c]) # <<>> }

DfCellsJoined(row) ==
    LET nb == { c \in 1..Len(row) : strip(row[c]) # <<>> }
        first == CHOOSE c \in nb : \A d \in nb : c <= d
    IN  IF Cardinality(nb) = 1 THEN row[first]
        ELSE row[1] \o <<" ">> \o row[2]

C14_Scenario ==
    << << <<"a">>, <<"b">> >>, << <<>>, <<>> >>, << <<"c">>, <<>> >> >>

C14_OneRecordPerNonBlankRow ==
    (kind = "dataframe" /\ result # NoResult) =>
        LET recs == result.rows
            nonblank == DfNonBlankRows(file.rows)
        IN  /\ Len(recs) = Cardinality(nonblank)
            /\ result.row_count = Len(recs)
            /\ { recs[k].row_index + 1 : k \in 1..Len(recs) } = nonblank
            /\ \A k \in 1..Len(recs) - 1 :
                   recs[k].row_index < recs[k + 1].row_index
            /\ \A k \in 1..Len(recs) :
                   recs[k].text = DfCellsJoined(file.rows[recs[k].row_index + 1])
            /\ file.rows = C14_Scenario =>
                   [k \in 1..Len(recs) |-> recs[k].text]
                       = << <<"a", " ", "b">>, <<"c">> >>

\* The scenario rows have been read: two records, for rows 0 and 2.
C14_Witness ==
    /\ kind = "dataframe" /\ result # NoResult
    /\ file.rows = C14_Scenario
    /\ result.row_count = 2
    /\ result.rows[2].row_index = 2

-----------------------------------------------------------------------------
(* read_word_file, src/modules/word_read.py:60-152                         *)

\* lines 94-104: paragraphs_data, for the paragraphs from position idx on
\* (style and alignment are not modelled)
RECURSIVE WordParagraphsData(_, _)
WordParagraphsData(paras, idx) ==
    IF paras = <<>> THEN <<>>
    ELSE LET text == strip(paras[1])
         IN  (IF text # <<>>
              THEN << [paragraph_index |-> idx, text |-> text] >>
              ELSE <<>>)
                 \o WordParagraphsData(Tail(paras), idx + 1)

\* lines 114-123: rows_data of one table, for the rows from position row_idx on
RECURSIVE WordRowsData(_, _)
WordRowsData(rows, row_idx) ==
    IF rows = <<>> THEN <<>>
    ELSE (IF WordRowText(rows[1]) # <<>>
          THEN << [row_index |-> row_idx, cells |-> StripAll(rows[1]),
                   cells_text |-> WordRowText(rows[1])] >>
          ELSE <<>>)
             \o WordRowsData(Tail(rows), row_idx + 1)

\* lines 110-134: tables_data, for the tables from position table_idx on
RECURSIVE WordTablesData(_, _)
WordTablesData(tbls, table_idx) ==
    IF tbls = <<>> THEN <<>>
    ELSE LET rows_data == WordRowsData(tbls[1], 0)
             table_full_text ==
                 [k \in 1..Len(rows_data) |-> rows_data[k].cells_text]
         IN  (IF rows_data # <<>>
              THEN << [table_index |-> table_idx,
                       row_count |-> Len(rows_data),
                       column_count |-> Len(tbls[1][1]),
                       rows |-> [k \in 1..Len(rows_data) |->
                                    [row_index |-> rows_data[k].row_index,
                                     cells |-> rows_data[k].cells]],
                       full_text |-> join(<<" ", "|", " ">>, table_full_text)] >>
              ELSE <<>>)
                 \o WordTablesData(Tail(tbls), table_idx + 1)

\* the tables come first
WordAllTexts_TablesFirst(paragraph_texts, table_texts) ==
    table_texts \o paragraph_texts

\* line 137: all_texts = paragraph_texts + table_texts
WordAllTexts(paragraph_texts, table_texts) == paragraph_texts \o table_texts

\* lines 88-149: the WordFileData returned
WordFileData(paras, tbls) ==
    LET paragraphs_data == WordParagraphsData(paras, 0)
        tables_data == WordTablesData(tbls, 0)
        paragraph_texts ==
            [k \in 1..Len(paragraphs_data) |-> paragraphs_data[k].text]
        table_texts ==
            [k \in 1..Len(tables_data) |-> tables_data[k].full_text]
        full_text == join(<<"\n">>, WordAllTexts(paragraph_texts, table_texts))
    IN  [returned |-> "WordFileData",
         paragraph_count |-> Len(paragraphs_data),
         table_count |-> Len(tables_data),
         paragraphs |-> paragraphs_data,
         tables |-> tables_data,
         full_text |-> full_text,
         word_count |-> IF full_text # <<>> THEN split_count(full_text) ELSE 0]

\* read_word_file on the document that extract_word_to_chunks folds
read_word_file ==
    /\ kind = "word" /\ result = NoResult
    /\ result' = WordFileData(paragraphs, tables)
    /\ UNCHANGED <<kind, chunker_vars, queue_vars, file, db_vars>>

WordFileNext == WordNext \/ read_word_file

SpecWordFile == WordInit /\ [][WordFileNext]_vars

\* C15: in read_word_file's full_text and in the chunks of
\* extract_word_to_chunks the text of every non-empty paragraph comes before
\* the text of every table, paragraphs in increasing paragraph index and
\* tables in increasing table index; empty paragraphs and empty table rows
\* contribute no text; an emitted paragraph keeps its index in the document.
NonEmptyParagraphs == { k \in 1..Len(paragraphs) : strip(paragraphs[k]) # <<>> }

NonEmptyRows(table) == { k \in 1..Len(table) : WordRowText(table[k]) # <<>> }

NonEmptyTables == { k \in 1..Len(tables) : NonEmptyRows(tables[k]) # {} }

Increasing(idx) == \A k \in 1..Len(idx) - 1 : idx[k] < idx[k + 1]

RECURSIVE Concat(_)
Concat(parts) == IF parts = <<>> THEN <<>> ELSE parts[1] \o Concat(Tail(parts))

\* The document as one text: each non-empty paragraph and its newline, then
\* each non-empty table under its header.
C15_DocumentStream ==
    Concat([k \in 1..Len(paragraphs) |->
               IF k \in NonEmptyParagraphs
               THEN strip(paragraphs[k]) \o <<"\n">> ELSE <<>>])
        \o Concat([k \in 1..Len(tables) |->
                      IF k \in NonEmptyTables
                      THEN TableHeader(k - 1) \o WordTableText(tables[k])
                      ELSE <<>>])

C15_FullTextOrdered ==
    (kind = "word" /\ result # NoResult) =>
        LET ps == result.paragraphs
            ts == result.tables
        IN  /\ { ps[k].paragraph_index + 1 : k \in 1..Len(ps) } = NonEmptyParagraphs
            /\ Increasing([k \in 1..Len(ps) |-> ps[k].paragraph_index])
            /\ \A k \in 1..Len(ps) :
                   ps[k].text = strip(paragraphs[ps[k].paragraph_index + 1])
            /\ { ts[k].table_index + 1 : k \in 1..Len(ts) } = NonEmptyTables
            /\ Increasing([k \in 1..Len(ts) |-> ts[k].table_index])
            /\ \A k \in 1..Len(ts) :
                   LET table == tables[ts[k].table_index + 1]
                   IN  /\ { ts[k].rows[r].row_index + 1 :
                              r \in 1..Len(ts[k].rows) } = NonEmptyRows(table)
                       /\ Increasing([r \in 1..Len(ts[k].rows) |->
                                         ts[k].rows[r].row_index])
                       /\ ts[k].full_text =
                              join(<<" ", "|", " ">>,
                                   [r \in 1..Len(ts[k].rows) |->
                                       WordRowText(table[ts[k].rows[r].row_index + 1])])
            /\ result.full_text =
                   join(<<"\n">>, [k \in 1..Len(ps) |-> ps[k].text]
                                      \o [k \in 1..Len(ts) |-> ts[k].full_text])

C15_ChunksOrdered ==
    (kind = "word" /\ pc = "done") =>
        /\ Concat([k \in 1..Len(chunks) |-> chunks[k].text \o <<"\n">>])
               = C15_DocumentStream
        /\ \A k \in 1..Len(chunks) :
               chunks[k].text[1] # "=" =>
                   LET first == strip(paragraphs[chunks[k].paragraph_start + 1])
                   IN  /\ first # <<>>
                       /\ Len(first) <= Len(chunks[k].text)
                       /\ SubSeq(chunks[k].text, 1, Len(first)) = first

C15_ParagraphsBeforeTables == C15_FullTextOrdered /\ C15_ChunksOrdered

\* A document with an empty paragraph before a non-empty one, an empty table
\* before a non-empty one, read and chunked.
C15_Witness ==
    /\ kind = "word" /\ pc = "done" /\ result # NoResult
    /\ Len(paragraphs) = 2 /\ NonEmptyParagraphs = {2}
    /\ Len(tables) = 2 /\ NonEmptyTables = {2}
    /\ result.paragraphs[1].paragraph_index = 1
    /\ result.tables[1].table_index = 1
    /\ Len(chunks) = 2

-----------------------------------------------------------------------------
(* Files, paths and decoding, as src/modules/file_read.py and              *)
(* src/modules/text_read.py see them through pathlib and open().           *)

MaxBytes == 3

\* Python's None
None == "None"

\* The bytes a modelled file is made of: 'A', newline, and three bytes above
\* 0x7F that the candidate encodings treat differently.
Bytes == {"41", "0A", "E3", "81", "FF"}

\* File names, as sequences of characters.
FileNames ==
    { <<"a", ".", "t", "x", "t">>, <<"a", ".", "T", "X", "T">>,
      <<"a", ".", "b", "i", "n">>, <<"a">>, <<".", "e", "n", "v">>,
      <<"a", ".", "M", "d">> }

\* What is at a path: nothing, a directory, or a regular file and its bytes.
Entries ==
    { [entry |-> "absent", bytes |-> <<>>], [entry |-> "dir", bytes |-> <<>>] }
        \cup { [entry |-> "file", bytes |-> b] : b \in SeqsOf(Bytes, 0, MaxBytes) }

UpperLetters ==
    <<"A", "B", "C", "D", "E", "F", "G", "H", "I", "J", "K", "L", "M",
      "N", "O", "P", "Q", "R", "S", "T", "U", "V", "W", "X", "Y", "Z">>

LowerLetters ==
    <<"a", "b", "c", "d", "e", "f", "g", "h", "i", "j", "k", "l", "m",
      "n", "o", "p", "q", "r", "s", "t", "u", "v", "w", "x", "y", "z">>

\* str.lower()
lower(s) ==
    [k \in 1..Len(s) |->
        IF \E u \in 1..Len(UpperLetters) : UpperLetters[u] = s[k]
        THEN LowerLetters[CHOOSE u \in 1..Len(UpperLetters) : UpperLetters[u] = s[k]]
        ELSE s[k]]

\* Path(name).suffix: from the last dot on, unless that dot is the first or
\* the last character of the name
suffix(name) ==
    LET dots == { k \in 1..Len(name) : name[k] = "." }
        last == CHOOSE k \in dots : \A d \in dots : d <= k
    IN  IF dots # {} /\ 1 < last /\ last < Len(name)
        THEN SubSeq(name, last, Len(name)) ELSE <<>>

\* the working directory that Path.absolute() prepends
Cwd == <<"/", "w">>

\* str(path.absolute()) of a relative path
absolute(file_path) == Cwd \o <<"/">> \o file_path

IsAscii(x) == x \in {"41", "0A"}

AsciiChar(x) == IF x = "41" THEN "A" ELSE "\n"

Latin1Char(x) ==
    CASE x = "E3" -> "U+00E3" [] x = "81" -> "U+0081" [] x = "FF" -> "U+00FF"

\* second byte of a double-byte character of cp932 / shift_jis
IsTrail(x) == x \in {"41", "E3", "81"}

DoubleByteChar(lead, trail) ==
    CASE lead = "E3" /\ trail = "41" -> "U+7D1C"
      [] lead = "E3" /\ trail = "E3" -> "U+807D"
      [] lead = "E3" /\ trail = "81" -> "U+7E3A"
      [] lead = "81" /\ trail = "41" -> "U+3001"
      [] lead = "81" /\ trail = "E3" -> "U+221A"
      [] lead = "81" /\ trail = "81" -> "U+FF1D"

\* The first character of b under a codec: n bytes consumed giving character
\* c, or n = 0 when the bytes do not decode.
DecodeStep(enc, b) ==
    IF IsAscii(b[1]) THEN [n |-> 1, c |-> AsciiChar(b[1])]
    ELSE CASE enc = "latin-1" -> [n |-> 1, c |-> Latin1Char(b[1])]
           [] enc = "utf-8" ->
                IF Len(b) >= 3 /\ b[1] = "E3" /\ b[2] = "81" /\ b[3] = "81"
                THEN [n |-> 3, c |-> "U+3041"] ELSE [n |-> 0, c |-> ""]
           [] enc \in {"cp932", "shift_jis"} ->
                IF b[1] = "FF"
                THEN (IF enc = "cp932" THEN [n |-> 1, c |-> "U+F8F3"]
                                       ELSE [n |-> 0, c |-> ""])
                ELSE IF Len(b) >= 2 /\ IsTrail(b[2])
                     THEN [n |-> 2, c |-> DoubleByteChar(b[1], b[2])]
                     ELSE [n |-> 0, c |-> ""]
           [] OTHER -> [n |-> 0, c |-> ""]

\* the decoder's loop, character by character from the start of b
RECURSIVE decode_chars(_, _)
decode_chars(enc, b) ==
    IF b = <<>> THEN [ok |-> TRUE, text |-> <<>>]
    ELSE LET st == DecodeStep(enc, b)
         IN  IF st.n = 0 THEN [ok |-> FALSE, text |-> <<>>]
             ELSE LET rest == decode_chars(enc, SubSeq(b, st.n + 1, Len(b)))
                  IN  [ok |-> rest.ok,
                       text |-> IF rest.ok THEN <<st.c>> \o rest.text ELSE <<>>]

\* bytes.decode(enc): the text, or ok = FALSE for UnicodeDecodeError. The
\* ASCII bytes before the first other byte are one character each under
\* every codec; the loop runs from that byte on.
decode(enc, b) ==
    LET others == { k \in 1..Len(b) : ~IsAscii(b[k]) }
        first == IF others = {} THEN Len(b) + 1
                 ELSE CHOOSE k \in others : \A j \in others : k <= j
        rest == decode_chars(enc, SubSeq(b, first, Len(b)))
    IN  [ok |-> rest.ok,
         text |-> IF rest.ok
                  THEN [k \in 1..(first - 1) |-> AsciiChar(b[k])] \o rest.text
                  ELSE <<>>]

\* the codecs Python can look up, among the names the model uses
KnownCodecs == {"utf-8", "cp932", "shift_jis", "latin-1", "ascii"}

Raised(error, message) ==
    [returned |-> "raised", error |-> error, message |-> message]

\* with open(path, 'r', encoding=enc) as f: f.read()
open_read(f, enc) ==
    IF f.entry = "absent" THEN [raised |-> "FileNotFoundError", content |-> <<>>]
    ELSE IF f.entry = "dir" THEN [raised |-> "IsADirectoryError", content |-> <<>>]
    ELSE IF enc \notin KnownCodecs THEN [raised |-> "LookupError", content |-> <<>>]
    ELSE LET d == decode(enc, f.bytes)
         IN  IF d.ok THEN [raised |-> "none", content |-> d.text]
             ELSE [raised |-> "UnicodeDecodeError", content |-> <<>>]

-----------------------------------------------------------------------------
(* _try_encodings, src/modules/text_read.py:81-102                         *)

\* latin-1, which decodes every byte string, tried first
encodings_LatinFirst == <<"latin-1", "utf-8", "cp932", "shift_jis">>

\* line 91
encodings == <<"utf-8", "cp932", "shift_jis", "latin-1">>

\* lines 93-102: the loop from the candidates encs on, and the fall-through
RECURSIVE try_encodings_from(_, _)
try_encodings_from(encs, f) ==
    IF encs = <<>> THEN [returned |-> "str", value |-> "utf-8"]
    ELSE LET r == open_read(f, encs[1])
         IN  IF r.raised = "none" THEN [returned |-> "str", value |-> encs[1]]
             ELSE IF r.raised \in {"UnicodeDecodeError", "LookupError"}
                  THEN try_encodings_from(Tail(encs), f)
                  ELSE Raised(r.raised, "open")

EncodingsInit ==
    /\ kind = "encodings"
    /\ ReaderIdle
    /\ file \in { [file_path |-> <<"a", ".", "t", "x", "t">>,
                   entry |-> en.entry, bytes |-> en.bytes] : en \in Entries }
    /\ result = NoResult

try_encodings ==
    /\ kind = "encodings" /\ result = NoResult
    /\ result' = try_encodings_from(encodings, file)
    /\ UNCHANGED <<kind, chunker_vars, queue_vars, file, db_vars>>

EncodingsNext == try_encodings

SpecEncodings == EncodingsInit /\ [][EncodingsNext]_vars

\* C16: _try_encodings tries utf-8, cp932, shift_jis, latin-1 in that order
\* and returns the first one that decodes the whole file; when no candidate
\* decodes the file the outcome is a typed failure, never the name of an
\* encoding that does not decode the file.
C16_Candidates == <<"utf-8", "cp932", "shift_jis", "latin-1">>

C16_Decoding ==
    { k \in 1..Len(C16_Candidates) :
        file.entry = "file" /\ decode(C16_Candidates[k], file.bytes).ok }

C16_FirstDecodingCandidate ==
    (kind = "encodings" /\ result # NoResult) =>
        /\ C16_Decoding # {} =>
               /\ result.returned = "str"
               /\ \E k \in C16_Decoding :
                      /\ result.value = C16_Candidates[k]
                      /\ \A j \in C16_Decoding : k <= j
        /\ C16_Decoding = {} => result.returned = "raised"
        /\ result.returned = "str" =>
               file.entry = "file" /\ decode(result.value, file.bytes).ok

\* A file that utf-8 does not decode and cp932 does: the second candidate is
\* returned.
C16_Witness ==
    /\ kind = "encodings" /\ result # NoResult
    /\ file.entry = "file" /\ file.bytes = <<"41", "FF">>
    /\ ~decode("utf-8", file.bytes).ok
    /\ result.returned = "str" /\ result.value = "cp932"

-----------------------------------------------------------------------------
(* get_file_metadata, src/modules/file_read.py:52-103                      *)

\* mimetypes.types_map, for the extensions of the model's file names
types_map ==
    [ext \in { <<".", "t", "x", "t">>, <<".", "b", "i", "n">>, <<".", "m", "d">> } |->
        CASE ext = <<".", "t", "x", "t">> -> "text/plain"
          [] ext = <<".", "b", "i", "n">> -> "application/octet-stream"
          [] ext = <<".", "m", "d">> -> "text/markdown"]

\* mimetypes.guess_type(file_path)[0]: by extension, case-insensitively
guess_type(file_path) ==
    IF lower(suffix(file_path)) \in DOMAIN types_map
    THEN types_map[lower(suffix(file_path))] ELSE None

\* hashlib.md5 of the bytes read, as a value that determines them
calculate_file_hash(f) == <<"md5", f.bytes>>

\* the extension as the file name writes it
file_ext_AsWritten(file_path) == suffix(file_path)

\* line 84: file_ext = path.suffix.lower()
file_ext(file_path) == lower(suffix(file_path))

\* lines 66-103 (owner and timestamps are not modelled)
FileMetadata(f) ==
    IF f.entry = "absent" THEN Raised("FileNotFoundError", "not found")
    ELSE IF f.entry # "file" THEN Raised("ValueError", "not a file")
    ELSE LET mime_type == guess_type(f.file_path)
         IN  [returned |-> "FileMetadata",
              file_id |-> absolute(f.file_path),
              filename |-> f.file_path,
              file_path |-> absolute(f.file_path),
              file_type |-> file_ext(f.file_path),
              file_size |-> Len(f.bytes),
              file_hash |-> calculate_file_hash(f),
              mime_type |-> IF mime_type # None THEN mime_type
                            ELSE "application/octet-stream",
              file_revision |-> "", category |-> "general", active |-> TRUE]

MetadataInit ==
    /\ kind = "metadata"
    /\ ReaderIdle
    /\ file \in { [file_path |-> name, entry |-> en.entry, bytes |-> en.bytes] :
                    name \in FileNames, en \in Entries }
    /\ result = NoResult

get_file_metadata ==
    /\ kind = "metadata" /\ result = NoResult
    /\ result' = FileMetadata(file)
    /\ UNCHANGED <<kind, chunker_vars, queue_vars, file, db_vars>>

MetadataNext == get_file_metadata

SpecMetadata == MetadataInit /\ [][MetadataNext]_vars

\* C17: get_file_metadata fails with a not-found error when the path does
\* not exist and with a distinct not-a-file error when the path is a
\* directory; on success file_id equals file_path, file_type is the
\* lower-cased extension and mime_type is never empty; the file is never
\* modified.
C17_Step ==
    get_file_metadata =>
        /\ file' = file
        /\ file.entry = "absent" =>
               result'.returned = "raised" /\ result'.error = "FileNotFoundError"
        /\ file.entry = "dir" =>
               /\ result'.returned = "raised"
               /\ result'.error = "ValueError"
               /\ result'.error # "FileNotFoundError"
        /\ file.entry = "file" =>
               /\ result'.returned = "FileMetadata"
               /\ result'.file_id = result'.file_path
               /\ result'.file_type = lower(suffix(file.file_path))
               /\ \A k \in 1..Len(result'.file_type) :
                      \A u \in 1..Len(UpperLetters) :
                          result'.file_type[k] # UpperLetters[u]
               /\ result'.mime_type \notin {"", None}

C17_MetadataContract == [][C17_Step]_vars

\* The metadata of a regular file with an upper-case extension, and of one
\* without a known MIME type, have been returned.
C17_Witness ==
    /\ kind = "metadata" /\ result # NoResult
    /\ file.entry = "file"
    /\ file.file_path = <<"a", ".", "T", "X", "T">>
    /\ result.returned = "FileMetadata"
    /\ result.file_type = <<".", "t", "x", "t">>
    /\ result.mime_type = "text/plain"

-----------------------------------------------------------------------------
(* detect_encoding, is_text_file and read_text_file,                       *)
(* src/modules/text_read.py:50-78 and 105-198                              *)

\* What chardet does for the file: it cannot be imported, or detect() gives
\* an encoding name (None when it has no guess) and a confidence in tenths.
ChardetOutcomes ==
    { [import |-> "ImportError", encoding |-> None, confidence |-> 0],
      [import |-> "ok", encoding |-> None, confidence |-> 0],
      [import |-> "ok", encoding |-> "utf-8", confidence |-> 5],
      [import |-> "ok", encoding |-> "utf-8", confidence |-> 9],
      [import |-> "ok", encoding |-> "SHIFT_JIS", confidence |-> 9],
      [import |-> "ok", encoding |-> "ascii", confidence |-> 10] }

\* line 73: the confidence below which the guess is not used, in tenths
MinConfidence == 7

\* line 76: encoding.lower(), for the names chardet reports
EncodingLower(name) == IF name = "SHIFT_JIS" THEN "shift_jis" ELSE name

\* line 68: f.read(10000), the bytes chardet is shown
DetectWindow == 10000

raw_data(f) ==
    SubSeq(f.bytes, 1, IF Len(f.bytes) < DetectWindow THEN Len(f.bytes)
                                                      ELSE DetectWindow)

\* chardet is confident of an encoding only when the bytes it was shown
\* decode under it; what lies beyond the window it never sees
ChardetCanSay(ch, f) ==
    (ch.import = "ok" /\ ch.confidence >= MinConfidence /\ ch.encoding # None)
        => decode(EncodingLower(ch.encoding), raw_data(f)).ok

\* the encoding argument of read_text_file
EncodingArgs == {None, "utf-8", "latin-1", "bogus"}

\* lines 60-78, on a file that can be opened; a None guess with enough
\* confidence raises inside the try and falls to _try_encodings as well
detect_encoding(f) ==
    IF f.chardet.import = "ImportError" THEN try_encodings_from(encodings, f)
    ELSE IF f.chardet.confidence < MinConfidence
         THEN try_encodings_from(encodings, f)
         ELSE IF f.chardet.encoding = None
              THEN try_encodings_from(encodings, f)
              ELSE [returned |-> "str",
                    value |-> EncodingLower(f.chardet.encoding)]

\* lines 119-131: text_extensions, the members a model file name can have
\* plus two it cannot ('.env' is never the suffix of a file named '.env')
text_extensions ==
    { <<".", "t", "x", "t">>, <<".", "m", "d">>, <<".", "p", "y">>,
      <<".", "e", "n", "v">> }

\* the extension compared as the file name writes it
is_text_file_CaseSensitive(file_path) == suffix(file_path) \in text_extensions

\* lines 115-133
is_text_file(file_path) == lower(suffix(file_path)) \in text_extensions

\* len(content.splitlines())
splitlines_count(content) ==
    Cardinality({ k \in 1..Len(content) : content[k] = "\n" })
        + (IF content # <<>> /\ content[Len(content)] # "\n" THEN 1 ELSE 0)

\* lines 181-198
TextFileData(f, detected_encoding, content) ==
    [returned |-> "TextFileData",
     file_path |-> absolute(f.file_path),
     filename |-> f.file_path,
     file_type |-> lower(suffix(f.file_path)),
     encoding |-> detected_encoding,
     content |-> content,
     line_count |-> splitlines_count(content),
     char_count |-> Len(content),
     word_count |-> IF content # <<>> THEN split_count(content) ELSE 0,
     is_binary |-> ~is_text_file(f.file_path)]

\* lines 151-198: read_text_file(f.file_path, f.encoding)
ReadTextFile(f) ==
    IF f.entry = "absent" THEN Raised("FileNotFoundError", "not found")
    ELSE IF f.entry # "file" THEN Raised("ValueError", "not a file")
    ELSE LET detected_encoding ==
                 IF f.encoding = None THEN detect_encoding(f).value
                 ELSE f.encoding
             first == open_read(f, detected_encoding)
         IN  IF first.raised = "none"
             THEN TextFileData(f, detected_encoding, first.content)
             ELSE IF first.raised # "UnicodeDecodeError"
                  THEN Raised(first.raised, "open")
                  ELSE IF f.encoding = None
                       THEN Raised("ValueError", "cannot read as text")
                       ELSE LET redetected == detect_encoding(f).value
                                second == open_read(f, redetected)
                            IN  IF second.raised = "none"
                                THEN TextFileData(f, redetected, second.content)
                                ELSE Raised(second.raised, "open")

\* The file names a text file is read under.
TextFileNames ==
    { <<"a", ".", "t", "x", "t">>, <<"a", ".", "T", "X", "T">>,
      <<"a", ".", "b", "i", "n">>, <<".", "e", "n", "v">> }

\* Files longer than the bytes chardet is shown: 'A' repeated over the
\* whole window, then one more byte.
LongEntries ==
    { [entry |-> "file", bytes |-> [k \in 1..DetectWindow |-> "41"] \o <<x>>] :
        x \in {"0A", "E3"} }

ReadTextInit ==
    /\ kind = "text_file"
    /\ ReaderIdle
    /\ file \in { f \in { [file_path |-> name, entry |-> en.entry,
                            bytes |-> en.bytes, chardet |-> ch,
                            encoding |-> enc] :
                             name \in TextFileNames,
                             en \in Entries \cup LongEntries,
                             ch \in ChardetOutcomes, enc \in EncodingArgs } :
                    ChardetCanSay(f.chardet, f) }
    /\ result = NoResult

read_text_file ==
    /\ kind = "text_file" /\ result = NoResult
    /\ result' = ReadTextFile(file)
    /\ UNCHANGED <<kind, chunker_vars, queue_vars, file, db_vars>>

ReadTextNext == read_text_file

SpecReadText == ReadTextInit /\ [][ReadTextNext]_vars

\* C18: is_text_file depends only on the lower-cased extension, and
\* read_text_file never fails because of that classification: for an existing
\* file whose bytes decode, an extension outside the text-extension set gives
\* success with is_binary = true and the full content.
C18_SelectedEncoding ==
    IF file.encoding = None THEN detect_encoding(file).value ELSE file.encoding

C18_ClassificationByExtension ==
    \A n1 \in TextFileNames, n2 \in TextFileNames :
        lower(suffix(n1)) = lower(suffix(n2)) => is_text_file(n1) = is_text_file(n2)

C18_BinaryExtensionStillRead ==
    (kind = "text_file" /\ result # NoResult) =>
        /\ C18_ClassificationByExtension
        /\ ( /\ file.entry = "file"
             /\ lower(suffix(file.file_path)) \notin text_extensions
             /\ C18_SelectedEncoding \in KnownCodecs
             /\ decode(C18_SelectedEncoding, file.bytes).ok )
           => /\ result.returned = "TextFileData"
              /\ result.is_binary = TRUE
              /\ result.content = decode(C18_SelectedEncoding, file.bytes).text
              /\ result.char_count = Len(result.content)
        /\ result.returned = "TextFileData" =>
               result.is_binary = (lower(suffix(file.file_path)) \notin text_extensions)

\* A file named a.bin whose bytes are not utf-8 has been read in full and
\* reported as binary.
C18_Witness ==
    /\ kind = "text_file" /\ result # NoResult
    /\ file.entry = "file"
    /\ file.file_path = <<"a", ".", "b", "i", "n">>
    /\ file.bytes = <<"41", "0A", "FF">>
    /\ file.encoding = None
    /\ result.returned = "TextFileData"
    /\ result.is_binary = TRUE
    /\ result.encoding = "cp932"
    /\ result.line_count = 2

-----------------------------------------------------------------------------
(* The three chunkers on the same units: extract_text_to_chunks on the     *)
(* units as lines, extract_excel_to_chunks on one sheet whose rows hold    *)
(* one unit each, extract_word_to_chunks on the units as paragraphs.       *)

MaxUnits == 3

\* Unit texts: non-blank, without surrounding whitespace, so that each is a
\* line, the text of a row and the text of a paragraph.
UnitTexts == { <<"a">>, <<"a", "a">>, <<"a", "a", "a">> }

\* the flush test of each chunker: text_read.py:267, excel_read.py:316,
\* word_read.py:277
FoldFlushCond(chunker, cur, unit, size) ==
    CASE chunker = "text" -> TextFlushCond(cur, unit, size)
      [] chunker = "excel" -> ExcelFlushCond(cur, unit, size)
      [] chunker = "word" -> WordFlushCond(cur, unit, size)

\* what each chunker appends after the unit: text_read.py:279,
\* excel_read.py:330, word_read.py:291
FoldSeparator(chunker) ==
    CASE chunker = "text" -> <<"\n">>
      [] chunker = "excel" -> <<" ">>
      [] chunker = "word" -> <<"\n">>

\* The loop and the final flush of a chunker from the accumulator cur, which
\* holds count units: the number of units in each chunk it emits.
RECURSIVE FoldCuts(_, _, _, _, _)
FoldCuts(chunker, units, size, cur, count) ==
    IF units = <<>>
    THEN (IF strip(cur) # <<>> THEN <<count>> ELSE <<>>)
    ELSE LET flush == FoldFlushCond(chunker, cur, units[1], size)
         IN  (IF flush THEN <<count>> ELSE <<>>)
                 \o FoldCuts(chunker, Tail(units), size,
                             (IF flush THEN <<>> ELSE cur)
                                 \o units[1] \o FoldSeparator(chunker),
                             (IF flush THEN 0 ELSE count) + 1)

FoldInit ==
    /\ kind = "fold"
    /\ ReaderIdle
    /\ file \in { [units |-> us, chunk_size |-> size] :
                    us \in SeqsOf(UnitTexts, 0, MaxUnits), size \in ChunkSizes }
    /\ result = NoResult

extract_to_chunks_each ==
    /\ kind = "fold" /\ result = NoResult
    /\ result' = [returned |-> "cuts",
                  text |-> FoldCuts("text", file.units, file.chunk_size, <<>>, 0),
                  excel |-> FoldCuts("excel", file.units, file.chunk_size, <<>>, 0),
                  word |-> FoldCuts("word", file.units, file.chunk_size, <<>>, 0)]
    /\ UNCHANGED <<kind, chunker_vars, queue_vars, file, db_vars>>

FoldNext == extract_to_chunks_each

SpecFold == FoldInit /\ [][FoldNext]_vars

\* C20: fed the same sequence of unit texts and the same chunk_size, the
\* three chunkers cut the sequence into chunks at the same unit boundaries.
C20_SameCuts ==
    (kind = "fold" /\ result # NoResult) =>
        /\ result.text = result.excel
        /\ result.excel = result.word

-----------------------------------------------------------------------------
(* Further claims on the chunkers.                                         *)

SheetIndex(name) == CHOOSE sh \in 1..Len(SheetNames) : SheetNames[sh] = name

\* C21: extract_excel_to_chunks skips fully blank rows: a blank row is never
\* folded into a chunk, and its index is never a chunk's row_start or
\* row_end.
C21_BlankRowsSkipped ==
    (kind = "excel" /\ pc = "done") =>
        \A k \in 1..Len(chunks) :
            LET sheet == sheets[SheetIndex(chunks[k].sheet_name)]
            IN  /\ \A u \in 1..Len(folded[k]) : folded[k][u] # <<>>
                /\ ExcelRowText(sheet[chunks[k].row_start + 1]) # <<>>
                /\ ExcelRowText(sheet[chunks[k].row_end + 1]) # <<>>

\* the number of newlines in s
NewlineCount(s) == Cardinality({ c \in 1..Len(s) : s[c] = "\n" })

\* C22: in extract_word_to_chunks every non-empty table row is folded as a
\* unit of its own, and a chunk that holds only table content does not
\* report the paragraph range 0..0.
C22_TableRowsAreUnits ==
    (kind = "word" /\ pc = "done") =>
        \A k \in 1..Len(chunks) :
            /\ \A u \in 1..Len(folded[k]) : NewlineCount(folded[k][u]) <= 1
            /\ chunks[k].text[1] = "=" =>
                   ~(chunks[k].paragraph_start = 0 /\ chunks[k].paragraph_end = 0)

\* C26: no chunk returned by extract_text_to_chunks or
\* extract_excel_to_chunks has an empty text.
C26_NoEmptyChunkText ==
    (kind \in {"text", "excel"} /\ pc = "done") =>
        \A k \in 1..Len(chunks) : chunks[k].text # <<>>

\* C27: for every chunk returned by extract_text_to_chunks, char_count is
\* the number of characters of the chunk's text.
C27_CharCountIsTextLength ==
    TextDone => \A k \in 1..Len(chunks) : chunks[k].char_count = Len(chunks[k].text)

\* C29: every chunk of extract_excel_to_chunks holds rows of exactly one
\* sheet, the sheet that sheet_name names: its text and char_count are those
\* of the rows row_start..row_end of that sheet, row_start <= row_end, the
\* first chunk of a sheet starts at the sheet's first row, and within one
\* sheet the row ranges of successive chunks are disjoint and increasing.
C29_RowsOfChunk(k) ==
    LET sheet == sheets[SheetIndex(chunks[k].sheet_name)]
    IN  Concat([j \in 1..(chunks[k].row_end - chunks[k].row_start + 1) |->
                   ExcelRowText(sheet[chunks[k].row_start + j]) \o <<" ">>])

C29_ChunksWithinOneSheet ==
    (kind = "excel" /\ pc = "done") =>
        /\ \A k \in 1..Len(chunks) :
               /\ chunks[k].sheet_name \in { SheetNames[sh] : sh \in 1..Len(sheets) }
               /\ 0 <= chunks[k].row_start
               /\ chunks[k].row_start <= chunks[k].row_end
               /\ chunks[k].row_end
                      < Len(sheets[SheetIndex(chunks[k].sheet_name)])
               /\ chunks[k].text = strip(C29_RowsOfChunk(k))
               /\ chunks[k].char_count = Len(C29_RowsOfChunk(k))
               /\ (k = 1 \/ chunks[k - 1].sheet_name # chunks[k].sheet_name)
                      => chunks[k].row_start = 0
        /\ \A k \in 1..Len(chunks) - 1 :
               /\ SheetIndex(chunks[k].sheet_name)
                      <= SheetIndex(chunks[k + 1].sheet_name)
               /\ chunks[k].sheet_name = chunks[k + 1].sheet_name =>
                      chunks[k].row_end < chunks[k + 1].row_start

\* Two sheets chunked: two chunks from the first sheet, then one from the
\* second.
C29_Witness ==
    /\ kind = "excel" /\ pc = "done"
    /\ Len(sheets) = 2 /\ Len(chunks) = 3
    /\ chunks[1].sheet_name = "Sheet1" /\ chunks[2].sheet_name = "Sheet1"
    /\ chunks[2].row_start = 1
    /\ chunks[3].sheet_name = "Sheet2" /\ chunks[3].row_start = 0

-----------------------------------------------------------------------------
(* Further claims on the queue endpoints.                                  *)

\* C23: the dequeue endpoint never removes or modifies an existing row: for
\* every request it has the effect and the result of enqueue of the same
\* file_path with priority 0, whatever priority the request carried,
\* including the duplicate rejection.
C23_DequeueStep ==
    \A p \in Paths, pr \in Priorities :
        dequeue(p, pr) =>
            /\ SubSeq(queue_table', 1, Len(queue_table)) = queue_table
            /\ IF ActiveRowExists(queue_table, p)
               THEN /\ queue_table' = queue_table
                    /\ response'.status_code = 400
                    /\ response'.file_path = p
               ELSE /\ Len(queue_table') = Len(queue_table) + 1
                    /\ LET new == queue_table'[Len(queue_table')]
                       IN  /\ new.file_path = p
                           /\ new.status = "PENDING"
                           /\ new.priority = 0
                           /\ new.retry_count = 0
                           /\ new.created_at = new.updated_at
                           /\ new.started_at = NULL /\ new.completed_at = NULL
                           /\ response'.status_code = 200
                           /\ response'.queue_id = new.id
                           /\ response'.file_path = p
                           /\ response'.status = "PENDING"
                           /\ response'.priority = 0

C23_DequeueIsEnqueueAtZero == [][C23_DequeueStep]_vars

\* A dequeue has inserted a row of priority 0 behind a stored row.
C23_Witness ==
    /\ kind = "queue"
    /\ response.endpoint = "dequeue" /\ response.status_code = 200
    /\ Len(queue_table) = 2
    /\ response.queue_id = 2
    /\ queue_table[2].priority = 0
    /\ queue_table[1].priority = 5

\* C28: after any sequence of enqueue, dequeue and queue_list calls on a
\* fresh table, every row has status PENDING, retry_count 0 and null
\* started_at and completed_at, and the rows only grow: no call deletes a row
\* or changes a field of an existing row.
C28_RowsPending ==
    \A k \in 1..Len(queue_table) :
        /\ queue_table[k].status = "PENDING"
        /\ queue_table[k].retry_count = 0
        /\ queue_table[k].started_at = NULL
        /\ queue_table[k].completed_at = NULL

C28_RowsKept ==
    /\ Len(queue_table') >= Len(queue_table)
    /\ SubSeq(queue_table', 1, Len(queue_table)) = queue_table

C28_OnlyPendingRowsOnlyGrow == [](C28_RowsPending) /\ [][C28_RowsKept]_vars

\* On a fresh table an enqueue and a dequeue have each added a row and the
\* list has been read.
C28_Witness ==
    /\ kind = "queue"
    /\ Len(queue_table) = 2
    /\ queue_table[1].priority = 5 /\ queue_table[2].priority = 0
    /\ queue_table[1].created_at < queue_table[2].created_at
    /\ response.endpoint = "queue_list" /\ response.count = 2

-----------------------------------------------------------------------------
(* Further claims on read_text_file.                                       *)

\* C24: read_text_file reports a file that cannot be decoded only as
\* ValueError and a missing file only as FileNotFoundError: when the caller's
\* encoding fails it retries with the detected encoding, and it raises
\* ValueError, never a raw decoding error, when the retry fails as well.
C24_OnlyValueError ==
    ( /\ kind = "text_file" /\ result # NoResult
      /\ file.encoding \in KnownCodecs \cup {None}
      /\ result.returned = "raised" )
        => IF file.entry = "absent" THEN result.error = "FileNotFoundError"
                                    ELSE result.error = "ValueError"

\* C25: read_text_file called without an explicit encoding succeeds whenever
\* at least one of utf-8, cp932, shift_jis, latin-1 decodes the whole file,
\* whichever detection path chose the encoding.
C25_SucceedsWhenACandidateDecodes ==
    ( /\ kind = "text_file" /\ result # NoResult
      /\ file.entry = "file" /\ file.encoding = None
      /\ \E k \in 1..Len(C16_Candidates) :
             decode(C16_Candidates[k], file.bytes).ok )
        => result.returned = "TextFileData"

-----------------------------------------------------------------------------
(* get_db_connection and reset_connection, src/database.py:10-31, and      *)
(* GET /db/connect, src/routers/db.py:93-109                               *)

MaxConnects == 3

\* the uri argument of a call
UriArgs == {None} \cup (Uris \ {DefaultUri})

\* db.table_names(): the names of the tables of the connection's database,
\* in name order
table_names(stored, connection) == stored[connection.uri]

\* db.create_table(name, mode="overwrite"): the table is created, replacing
\* one of that name; the names the model uses sort before or equal to name
create_table(stored, connection, name) ==
    [stored EXCEPT ![connection.uri] =
        IF \E k \in 1..Len(@) : @[k] = name THEN @ ELSE Append(@, name)]

\* database.py:14-25, with the global conn and n connections made so far;
\* ok tells whether lancedb.connect returns or raises
get_db_connection(conn, n, uri, ok) ==
    IF conn # NoConnection
    THEN [raised |-> FALSE, connection |-> conn, connects |-> n]
    ELSE IF ok
         THEN [raised |-> FALSE,
               connection |-> [uri |-> IF uri = None THEN DefaultUri ELSE uri,
                               id |-> n + 1],
               connects |-> n + 1]
         ELSE [raised |-> TRUE, connection |-> conn, connects |-> n]

DbInit ==
    /\ kind = "db"
    /\ ReaderIdle
    /\ file = NoFile /\ result = NoResult

\* a direct call of get_db_connection(uri)
get_db_connection_call(uri) ==
    /\ kind = "db"
    /\ \E ok \in BOOLEAN :
           LET r == get_db_connection(db_connection, connects, uri, ok)
           IN  /\ r.connects <= MaxConnects
               /\ db_connection' = r.connection
               /\ connects' = r.connects
               /\ result' = IF r.raised THEN Raised("Exception", "connect")
                            ELSE [returned |-> "connection", uri_arg |-> uri,
                                  connection |-> r.connection]
    /\ UNCHANGED <<kind, chunker_vars, queue_vars, file, db_tables>>

\* database.py:28-31
reset_connection ==
    /\ kind = "db"
    /\ db_connection' = NoConnection
    /\ result' = [returned |-> "reset"]
    /\ UNCHANGED <<kind, chunker_vars, queue_vars, file, connects, db_tables>>

\* routers/db.py:93-109
connect_db(uri) ==
    /\ kind = "db"
    /\ \E ok \in BOOLEAN :
           LET r == get_db_connection(db_connection, connects, uri, ok)
           IN  /\ r.connects <= MaxConnects
               /\ db_connection' = r.connection
               /\ connects' = r.connects
               /\ result' =
                      IF r.raised
                      THEN [returned |-> "response", status_code |-> 500,
                            uri_arg |-> uri]
                      ELSE [returned |-> "response", status_code |-> 200,
                            uri_arg |-> uri,
                            status |-> "connected",
                            uri |-> IF uri = None THEN DefaultUri ELSE uri,
                            tables |-> table_names(db_tables, r.connection),
                            table_count |-> Len(table_names(db_tables, r.connection))]
    /\ UNCHANGED <<kind, chunker_vars, queue_vars, file, db_tables>>

\* routers/db.py:112-124
list_tables ==
    /\ kind = "db"
    /\ \E ok \in BOOLEAN :
           LET r == get_db_connection(db_connection, connects, None, ok)
           IN  /\ r.connects <= MaxConnects
               /\ db_connection' = r.connection
               /\ connects' = r.connects
               /\ result' =
                      IF r.raised
                      THEN [returned |-> "tables", status_code |-> 500]
                      ELSE [returned |-> "tables", status_code |-> 200,
                            tables |-> table_names(db_tables, r.connection),
                            count |-> Len(table_names(db_tables, r.connection))]
    /\ UNCHANGED <<kind, chunker_vars, queue_vars, file, db_tables>>

\* routers/db.py:127-144
db_status ==
    /\ kind = "db"
    /\ \E ok \in BOOLEAN :
           LET r == get_db_connection(db_connection, connects, None, ok)
           IN  /\ r.connects <= MaxConnects
               /\ db_connection' = r.connection
               /\ connects' = r.connects
               /\ result' =
                      IF r.raised
                      THEN [returned |-> "status", status_code |-> 200,
                            connected |-> FALSE]
                      ELSE [returned |-> "status", status_code |-> 200,
                            connected |-> TRUE,
                            uri |-> DefaultUri,
                            table_count |-> Len(table_names(db_tables, r.connection)),
                            tables |-> table_names(db_tables, r.connection)]
    /\ UNCHANGED <<kind, chunker_vars, queue_vars, file, db_tables>>

\* routers/db.py:78-91
create_flat_table ==
    /\ kind = "db"
    /\ \E ok \in BOOLEAN :
           LET r == get_db_connection(db_connection, connects, None, ok)
           IN  /\ r.connects <= MaxConnects
               /\ db_connection' = r.connection
               /\ connects' = r.connects
               /\ IF r.raised
                  THEN /\ db_tables' = db_tables
                       /\ result' = Raised("Exception", "connect")
                  ELSE /\ db_tables' =
                              create_table(db_tables, r.connection, "raw_texts")
                       /\ result' = [returned |-> "table",
                                     name |-> "raw_texts"]
    /\ UNCHANGED <<kind, chunker_vars, queue_vars, file>>

DbNext ==
    \/ \E uri \in UriArgs : get_db_connection_call(uri)
    \/ reset_connection
    \/ \E uri \in UriArgs : connect_db(uri)
    \/ list_tables
    \/ db_status
    \/ create_flat_table

SpecDb == DbInit /\ [][DbNext]_vars

\* C30: once get_db_connection has created the connection, every later call
\* returns that same connection whatever uri it is given, until
\* reset_connection; after reset_connection the next call connects again
\* with its own uri; and the uri that /db/connect reports as connected is the
\* uri of the connection it was given.
C30_SingletonStep ==
    \A uri \in UriArgs :
        (get_db_connection_call(uri) /\ result'.returned = "connection") =>
            /\ db_connection' = result'.connection
            /\ IF db_connection # NoConnection
               THEN result'.connection = db_connection
               ELSE /\ result'.connection.uri =
                           (IF uri = None THEN DefaultUri ELSE uri)
                    /\ result'.connection.id = connects + 1

C30_ReportedStep ==
    \A uri \in UriArgs :
        (connect_db(uri) /\ result'.status_code = 200) =>
            /\ result'.status = "connected"
            /\ result'.uri = db_connection'.uri

C30_SingletonAndReportedUri == [][C30_SingletonStep /\ C30_ReportedStep]_vars

====
